---- MODULE Spec2Model ----
(***************************************************************************)
(* Reading-list backend: an Express application over a Mongoose "Book"     *)
(* model.  The state is the process (start-up position, exit code), the    *)
(* books collection, the requests in hand and the last response sent.      *)
(*                                                                         *)
(* The handlers are async functions: a handler runs to its awaited call on *)
(* the Book model and returns to the event loop; the store executes the    *)
(* call atomically; the handler resumes later and responds.  Nothing       *)
(* serialises requests, so several are in hand at once and the steps of    *)
(* one interleave with the steps of the others.                            *)
(*                                                                         *)
(* JSON objects are functions from the keys they have to their values; a   *)
(* key that is absent is not in the DOMAIN.  title and author are          *)
(* sequences of one-character strings so that trim() is computed.          *)
(*                                                                         *)
(* pc          where the process is: connecting, connected, listening,     *)
(*             exited                                                      *)
(* exitCode    the status the process exited with (0: it has not)          *)
(* dbState     "none" until connectDB settled, then "up" or "failed"       *)
(* db          the books collection: _id -> document                       *)
(* nextId      the next ObjectId the store hands out                       *)
(* now         Date.now()                                                  *)
(* nreq        requests received, nresp responses sent                     *)
(* reqs        the requests in hand: number of the request -> its method   *)
(*             and path, how far its handler is, and what its call on the  *)
(*             model settled to                                            *)
(* resp        the last response sent                                      *)
(* deleted     the ids whose delete succeeded                              *)
(*                                                                         *)
(* What a handler throws, and the rejection of its promise, is passed to   *)
(* onError by the framework, as the error middleware's comment says.       *)
(***************************************************************************)
EXTENDS Integers, Sequences, FiniteSets, TLC

VARIABLES pc, exitCode, dbState, db, nextId, now, nreq, nresp, reqs, resp,
          deleted

vars == <<pc, exitCode, dbState, db, nextId, now, nreq, nresp, reqs, resp,
          deleted>>

(* ------------------------------ bounds --------------------------------- *)

\* Longest title / author a request carries.
MaxLen == 2
\* Largest ObjectId a request names.
MaxBooks == 2
\* Last instant of the clock behind Date.now().
MaxTime == 1
\* Number of requests the server receives.
MaxReqs == 2

(* --------------------------- values and inputs ------------------------- *)

EmptyObj == [k \in {} |-> 0]

Field(k, S) == {(k :> v) : v \in S}

Has(o, k) == k \in DOMAIN o

Chars == {" ", "a"}

Strs == UNION {[1..n -> Chars] : n \in 0..MaxLen}

\* String.prototype.trim
RECURSIVE TrimLeft(_)
TrimLeft(s) ==
  IF s = <<>> THEN s
  ELSE IF Head(s) = " " THEN TrimLeft(Tail(s)) ELSE s

RECURSIVE TrimRight(_)
TrimRight(s) ==
  IF s = <<>> THEN s
  ELSE IF s[Len(s)] = " " THEN TrimRight(SubSeq(s, 1, Len(s) - 1)) ELSE s

Trim(s) == TrimRight(TrimLeft(s))

\* An id of the URL: a well-formed ObjectId is a number >= 0, Malformed is a
\* string that does not cast to an ObjectId.  Id 0 is well formed and never
\* handed out.
Malformed == -1

IdParams == {Malformed} \cup (0..MaxBooks)

IsObjectId(id) == id >= 0

StatusInputs == {"reading", "bogus"}

RatingInputs == {-1, 5, 6}

NotesInputs == {"n"}

TagsInputs == {<<"t">>}

IncInputs == {5}

\* The query string of a list request: page and limit (numbers in text), or
\* one of the filters q, status and tag.
Queries ==
  {p @@ l : p \in {EmptyObj} \cup Field("page", {0, 1, 2}),
            l \in {EmptyObj} \cup Field("limit", {0, 2})}
    \cup Field("q", {<<"a">>, <<"A">>}) \cup Field("status", {"reading"})
    \cup Field("tag", {"t"})

\* The requests: one for each route of the router, and two no route matches.
Requests ==
  {[method |-> "GET", path |-> "/api/health"],
   [method |-> "POST", path |-> "/api/books"],
   [method |-> "GET", path |-> "/api/books"],
   [method |-> "GET", path |-> "/api/books/:id"],
   [method |-> "PATCH", path |-> "/api/books/:id"],
   [method |-> "DELETE", path |-> "/api/books/:id"],
   [method |-> "DELETE", path |-> "/api/books"],
   [method |-> "GET", path |-> "/"]}

\* The optional fields of a body: none, or one of them.
Optionals ==
  {EmptyObj} \cup Field("status", StatusInputs) \cup Field("rating", RatingInputs)
    \cup Field("notes", NotesInputs) \cup Field("tags", TagsInputs)

\* A POST body: every title beside no author and beside one author, every
\* author beside no title and beside one title, and every optional field
\* beside one title and author.
CreateBodies ==
  {t @@ a : t \in {EmptyObj} \cup Field("title", Strs),
            a \in {EmptyObj} \cup Field("author", {<<"a">>})}
    \cup {t @@ a : t \in {EmptyObj} \cup Field("title", {<<"a">>}),
                   a \in {EmptyObj} \cup Field("author", Strs)}
    \cup {[title |-> <<"a">>, author |-> <<"a", " ">>] @@ o : o \in Optionals}

\* A PATCH body: no key, one schema field, one of the keys a client may not
\* change (_id, the virtual id, createdAt), or the update operator $inc.
UpdateBodies ==
  Optionals \cup Field("title", Strs) \cup Field("author", Strs)
    \cup Field("_id", 0..MaxBooks) \cup Field("id", {0})
    \cup Field("createdAt", 0..MaxTime)
    \cup Field("$inc", Field("rating", IncInputs))

(* ------------------------------ results -------------------------------- *)

\* What a handler did: it responded (res.status(s).json(body)), leaving the
\* collection as newDb, or it threw / its promise rejected with err.
Responded(s, body, newDb) ==
  [threw |-> FALSE, status |-> s, body |-> body, db |-> newDb]

\* err.status is 0 when the error carries none.
Threw(name, s) ==
  [threw |-> TRUE, err |-> [name |-> name, status |-> s]]

\* What is kept of a result until the handler resumes.
Settled(r) ==
  IF r.threw THEN r ELSE [threw |-> FALSE, status |-> r.status, body |-> r.body]

NoOut == [threw |-> FALSE, status |-> 0, body |-> EmptyObj]

NoResp == [handler |-> "", params |-> EmptyObj, status |-> 0, body |-> EmptyObj]

(* ----------------------------- Book schema ----------------------------- *)

StatusEnum == {"to-read", "reading", "finished"}

\* The paths of an object that fail the schema's validators.
bookSchemaInvalid(o) ==
  {k \in DOMAIN o :
     \/ k \in {"title", "author"} /\ Len(o[k]) = 0
     \/ k = "status" /\ o[k] \notin StatusEnum
     \/ k = "rating" /\ (o[k] < 0 \/ o[k] > 5)}

\* The schema's setters: title and author are trimmed.
bookSchemaCast(o) ==
  [k \in DOMAIN o |-> IF k \in {"title", "author"} THEN Trim(o[k]) ELSE o[k]]

\* bookSchemaDefaults with another default status.
bookSchemaDefaultsReading(o) ==
  o @@ [status |-> "reading", notes |-> "", tags |-> <<>>]

\* The schema's defaults for the paths a new document leaves out.
bookSchemaDefaults(o) ==
  o @@ [status |-> "to-read", notes |-> "", tags |-> <<>>]


SchemaPaths == {"title", "author", "status", "rating", "notes", "tags"}

Restrict(o, K) == [k \in DOMAIN o \cap K |-> o[k]]

(* ------------------------- Book model operations ----------------------- *)

\* What a call on the model resolved to: docs holds the document, or nothing
\* for null.
Resolved(docs, newDb) == [threw |-> FALSE, docs |-> docs, db |-> newDb]

\* Book.create(doc): setters, defaults, validation, then the insert with the
\* _id and the timestamps.
BookCreate(doc) ==
  LET full == bookSchemaDefaults(bookSchemaCast(doc))
      bad == bookSchemaInvalid(full) \cup ({"title", "author"} \ DOMAIN full)
      stored == full @@ [_id |-> nextId, createdAt |-> now, updatedAt |-> now]
  IN IF bad # {} THEN Threw("ValidationError", 0)
     ELSE Resolved(<<stored>>, db @@ (nextId :> stored))

\* Book.findById(id)
BookFindById(id) ==
  IF ~IsObjectId(id) THEN Threw("CastError", 0)
  ELSE Resolved(IF id \in DOMAIN db THEN <<db[id]>> ELSE <<>>, db)

\* ApplyUpdate that also sets the createdAt an update names.
ApplyUpdateCreatedAt(doc, set, updates) ==
  Restrict(updates, {"createdAt"}) @@ set @@ [updatedAt |-> now] @@ doc

\* The document after an update is applied: $set of the cast fields, $inc of
\* rating, and the updatedAt the timestamps option sets.
ApplyUpdate(doc, set, updates) ==
  LET inc == IF Has(updates, "$inc")
             THEN [rating |-> (IF Has(doc, "rating") /\ ~Has(set, "rating")
                               THEN doc.rating ELSE 0) + updates["$inc"].rating]
             ELSE EmptyObj
  IN inc @@ set @@ [updatedAt |-> now] @@ doc

\* Book.findByIdAndUpdate(id, updates, {new: true, runValidators: true}).
\* Keys outside the schema (the virtual id) and the immutable createdAt are
\* dropped from the update; the fields to $set are cast and validated; $inc
\* is cast and not validated; the store refuses a change of _id.
BookFindByIdAndUpdate(id, updates) ==
  LET set == bookSchemaCast(Restrict(updates, SchemaPaths))
  IN IF ~IsObjectId(id) THEN Threw("CastError", 0)
     ELSE IF bookSchemaInvalid(set) # {} THEN Threw("ValidationError", 0)
     ELSE IF id \notin DOMAIN db THEN Resolved(<<>>, db)
     ELSE IF Has(updates, "_id") /\ updates["_id"] # id
       THEN Threw("MongoServerError", 0)
     ELSE LET doc == ApplyUpdate(db[id], set, updates)
          IN Resolved(<<doc>>, [db EXCEPT ![id] = doc])

\* BookFindByIdAndDelete that finds the document and leaves it stored.
BookFindByIdAndDeleteKept(id) ==
  IF ~IsObjectId(id) THEN Threw("CastError", 0)
  ELSE Resolved(IF id \in DOMAIN db THEN <<db[id]>> ELSE <<>>, db)

\* Book.findByIdAndDelete(id)
BookFindByIdAndDelete(id) ==
  IF ~IsObjectId(id) THEN Threw("CastError", 0)
  ELSE IF id \in DOMAIN db
    THEN Resolved(<<db[id]>>, [i \in DOMAIN db \ {id} |-> db[i]])
    ELSE Resolved(<<>>, db)

(* ------------------------------ handlers ------------------------------- *)

\* !x of JavaScript for a string of the body: absent or empty.
Falsy(body, k) == ~Has(body, k) \/ Len(body[k]) = 0

createBook(body) ==
  IF Falsy(body, "title") \/ Falsy(body, "author")
  THEN Responded(400, [error |-> "title y author son requeridos"], db)
  ELSE LET doc == [k \in DOMAIN body \cap SchemaPaths |->
                     IF k \in {"title", "author"} THEN Trim(body[k]) ELSE body[k]]
           r == BookCreate(doc)
       IN IF r.threw THEN r ELSE Responded(201, r.docs[1], r.db)

getBook(id) ==
  LET r == BookFindById(id)
  IN IF r.threw THEN r
     ELSE IF r.docs = <<>> THEN Responded(404, [error |-> "Libro no encontrado"], db)
     ELSE Responded(200, r.docs[1], db)

updateBook(id, updates) ==
  LET r == BookFindByIdAndUpdate(id, updates)
  IN IF r.threw THEN r
     ELSE IF r.docs = <<>> THEN Responded(404, [error |-> "Libro no encontrado"], db)
     ELSE Responded(200, r.docs[1], r.db)

removeBook(id) ==
  LET r == BookFindByIdAndDelete(id)
  IN IF r.threw THEN r
     ELSE IF r.docs = <<>> THEN Responded(404, [error |-> "Libro no encontrado"], db)
     ELSE Responded(200, [ok |-> TRUE], r.db)

health == Responded(200, [ok |-> TRUE], db)

(* ------------------------------ middleware ----------------------------- *)

notFound == Responded(404, [error |-> "Ruta no encontrada"], db)

\* const code = err.status || 500; the message is stood for by the error's
\* name.
onError(err) ==
  Responded(IF err.status # 0 THEN err.status ELSE 500, [error |-> err.name], db)


(* ------------------------------ listBooks ------------------------------ *)

DefaultPage == 1

DefaultLimit == 50

\* The declaration "const filter = {};" of listBooks is commented out.
filterDeclared == FALSE

\* The "i" option of $regex, on the letters of the model.
Lower(c) == IF c = "A" THEN "a" ELSE c

LowerStr(s) == [i \in 1..Len(s) |-> Lower(s[i])]

Contains(s, q) ==
  \E i \in 0..(Len(s) - Len(q)) : SubSeq(s, i + 1, i + Len(q)) = q

\* find(filter) and countDocuments(filter): the conditions are joined by AND.
Matches(doc, query) ==
  /\ Has(query, "q") =>
       \/ Contains(LowerStr(doc.title), LowerStr(query.q))
       \/ Contains(LowerStr(doc.author), LowerStr(query.q))
  /\ Has(query, "status") => doc.status = query.status
  /\ Has(query, "tag") => \E i \in 1..Len(doc.tags) : doc.tags[i] = query.tag

\* find(filter): the documents the filter matches.
Found(query) == {db[i] : i \in {j \in DOMAIN db : Matches(db[j], query)}}

\* sort({createdAt: -1}): the orders the store may return S in, newest first;
\* it promises no order among documents of one instant.
SortByCreatedAtDesc(S) ==
  LET n == Cardinality(S)
  IN {s \in [1..n -> S] :
        \A i, j \in 1..n :
          i < j => (s[i] # s[j] /\ s[i].createdAt >= s[j].createdAt)}

Min(a, b) == IF a < b THEN a ELSE b

\* sorted is the order the store returns the documents of the filter in.
listBooks(query, sorted) ==
  LET page == IF Has(query, "page") THEN query.page ELSE DefaultPage
      limit == IF Has(query, "limit") THEN query.limit ELSE DefaultLimit
      safePage == IF page > 0 THEN page ELSE DefaultPage
      safeLimit == IF limit > 0 THEN limit ELSE DefaultLimit
      skip == (safePage - 1) * safeLimit
      items == SubSeq(sorted, skip + 1, Min(skip + safeLimit, Len(sorted)))
  IN IF ~filterDeclared THEN Threw("ReferenceError", 0)
     ELSE Responded(200, [total |-> Len(sorted), page |-> safePage,
                          limit |-> safeLimit, items |-> items], db)

(* ------------------------------- routing ------------------------------- *)

\* The router's table; a request no route matches falls to notFound.
Route(r) ==
  IF r.method = "GET" /\ r.path = "/api/health" THEN "health"
  ELSE IF r.method = "POST" /\ r.path = "/api/books" THEN "createBook"
  ELSE IF r.method = "GET" /\ r.path = "/api/books" THEN "listBooks"
  ELSE IF r.method = "GET" /\ r.path = "/api/books/:id" THEN "getBook"
  ELSE IF r.method = "PATCH" /\ r.path = "/api/books/:id" THEN "updateBook"
  ELSE IF r.method = "DELETE" /\ r.path = "/api/books/:id" THEN "removeBook"
  ELSE "notFound"

\* Request n is in hand and the handler h of its route has not run yet.
Handling(n, h) ==
  /\ pc = "listening"
  /\ n \in DOMAIN reqs
  /\ reqs[n].phase = "received"
  /\ Route(reqs[n]) = h

\* Dispatch that does not pass the rejection of a handler's promise on:
\* the promise is dropped and the request stays without a response.
DispatchNoCatch(n, handler, params, r) ==
  IF r.threw
  THEN /\ reqs' = [reqs EXCEPT ![n] = [@ EXCEPT !.phase = "dropped"]]
       /\ UNCHANGED <<resp, nresp, pc, exitCode>>
  ELSE /\ resp' = [handler |-> handler, params |-> params,
                   status |-> r.status, body |-> r.body]
       /\ nresp' = nresp + 1
       /\ reqs' = [m \in DOMAIN reqs \ {n} |-> reqs[m]]
       /\ UNCHANGED <<pc, exitCode>>

\* The middleware chain once request n is settled with r: what was responded
\* is the response; an error given to next(err), what a handler threw and
\* the rejection of its promise go to onError, which responds.
Dispatch(n, handler, params, r) ==
  LET out == IF r.threw THEN onError(r.err) ELSE r
  IN /\ resp' = [handler |-> handler, params |-> params,
                 status |-> out.status, body |-> out.body]
     /\ nresp' = nresp + 1
     /\ reqs' = [m \in DOMAIN reqs \ {n} |-> reqs[m]]
     /\ UNCHANGED <<pc, exitCode>>

\* The handler of request n is at its await: the call on the model was
\* executed with the result r, and the handler is back in the event loop.
Await(n, params, r) ==
  /\ reqs' = [reqs EXCEPT ![n] = [@ EXCEPT !.phase = "awaiting",
                                           !.params = params,
                                           !.out = Settled(r)]]
  /\ db' = IF r.threw THEN db ELSE r.db
  /\ UNCHANGED <<pc, exitCode, resp, nresp>>

\* The collection as the process finds it: empty, or holding the book an
\* earlier run stored for POST {title: "a", author: "a "} at instant 0.
StoredAtStart ==
  {EmptyObj,
   1 :> (bookSchemaDefaults([title |-> <<"a">>, author |-> <<"a">>])
           @@ [_id |-> 1, createdAt |-> 0, updatedAt |-> 0])}

Init ==
  /\ pc = "connecting"
  /\ exitCode = 0
  /\ dbState = "none"
  /\ db \in StoredAtStart
  /\ nextId = Cardinality(DOMAIN db) + 1
  /\ now = 0
  /\ nreq = 0
  /\ nresp = 0
  /\ reqs = EmptyObj
  /\ resp = NoResp
  /\ deleted = {}

(* ------------------------------- start-up ------------------------------ *)

\* connectDB resolves: mongoose.connect succeeded.
ConnectOk ==
  /\ pc = "connecting"
  /\ pc' = "connected"
  /\ dbState' = "up"
  /\ UNCHANGED <<exitCode, db, nextId, now, nreq, nresp, reqs, resp, deleted>>

\* connectDB rejects: the .catch of server.js exits with status 1.
ConnectFail ==
  /\ pc = "connecting"
  /\ pc' = "exited"
  /\ exitCode' = 1
  /\ dbState' = "failed"
  /\ UNCHANGED <<db, nextId, now, nreq, nresp, reqs, resp, deleted>>

\* Listen that does not wait for connectDB.
ListenBeforeConnect ==
  /\ pc \in {"connecting", "connected"}
  /\ pc' = "listening"
  /\ UNCHANGED <<exitCode, dbState, db, nextId, now, nreq, nresp, reqs, resp, deleted>>

\* The .then of server.js: app.listen binds the port.
Listen ==
  /\ pc = "connected"
  /\ pc' = "listening"
  /\ UNCHANGED <<exitCode, dbState, db, nextId, now, nreq, nresp, reqs, resp, deleted>>

\* app.listen fails with the connection made: what it throws inside the
\* .then lands in the same .catch, which exits with status 1; a port in use
\* is an 'error' event nothing listens to, which ends the process with 1.
ListenFail ==
  /\ pc = "connected"
  /\ pc' = "exited"
  /\ exitCode' = 1
  /\ UNCHANGED <<dbState, db, nextId, now, nreq, nresp, reqs, resp, deleted>>

(* ------------------------------- requests ------------------------------ *)

\* Time passes.
Tick ==
  /\ pc = "listening"
  /\ now < MaxTime
  /\ now' = now + 1
  /\ UNCHANGED <<pc, exitCode, dbState, db, nextId, nreq, nresp, reqs, resp, deleted>>

\* A request arrives, whatever is in hand.
Receive(r) ==
  /\ pc = "listening"
  /\ nreq < MaxReqs
  /\ nreq' = nreq + 1
  /\ reqs' = reqs @@ (nreq + 1 :>
               [method |-> r.method, path |-> r.path, phase |-> "received",
                params |-> EmptyObj, out |-> NoOut])
  /\ UNCHANGED <<pc, exitCode, dbState, db, nextId, now, nresp, resp, deleted>>

\* express.json() cannot parse the body the request carries, whatever its
\* method and path: it gives next an error that carries status 400, and no
\* handler runs.
BodyParseError(n) ==
  /\ pc = "listening"
  /\ n \in DOMAIN reqs
  /\ reqs[n].phase = "received"
  /\ Dispatch(n, "express.json", EmptyObj, Threw("SyntaxError", 400))
  /\ UNCHANGED <<dbState, db, nextId, now, nreq, deleted>>

HealthReq(n) ==
  /\ Handling(n, "health")
  /\ Dispatch(n, "health", EmptyObj, health)
  /\ UNCHANGED <<dbState, db, nextId, now, nreq, deleted>>

NotFoundReq(n) ==
  /\ Handling(n, "notFound")
  /\ Dispatch(n, "notFound", EmptyObj, notFound)
  /\ UNCHANGED <<dbState, db, nextId, now, nreq, deleted>>

\* createBook responds 400 before any await, or awaits Book.create.
CreateBookReq(n, body) ==
  /\ Handling(n, "createBook")
  /\ IF Falsy(body, "title") \/ Falsy(body, "author")
     THEN /\ Dispatch(n, "createBook", EmptyObj, createBook(body))
          /\ UNCHANGED <<db, nextId>>
     ELSE /\ Await(n, EmptyObj, createBook(body))
          /\ nextId' = IF db' # db THEN nextId + 1 ELSE nextId
  /\ UNCHANGED <<dbState, now, nreq, deleted>>

\* listBooks throws at its first use of filter, before any await; with the
\* declaration in place it awaits find and countDocuments.
ListBooksReq(n, query) ==
  /\ Handling(n, "listBooks")
  /\ \E sorted \in SortByCreatedAtDesc(Found(query)) :
       IF listBooks(query, sorted).threw
       THEN /\ Dispatch(n, "listBooks", EmptyObj, listBooks(query, sorted))
            /\ UNCHANGED db
       ELSE Await(n, EmptyObj, listBooks(query, sorted))
  /\ UNCHANGED <<dbState, nextId, now, nreq, deleted>>

GetBookReq(n, id) ==
  /\ Handling(n, "getBook")
  /\ Await(n, [id |-> id], getBook(id))
  /\ UNCHANGED <<dbState, nextId, now, nreq, deleted>>

UpdateBookReq(n, id, updates) ==
  /\ Handling(n, "updateBook")
  /\ Await(n, [id |-> id], updateBook(id, updates))
  /\ UNCHANGED <<dbState, nextId, now, nreq, deleted>>

RemoveBookReq(n, id) ==
  /\ Handling(n, "removeBook")
  /\ Await(n, [id |-> id], removeBook(id))
  /\ deleted' = IF ~removeBook(id).threw /\ removeBook(id).status = 200
                THEN deleted \cup {id} ELSE deleted
  /\ UNCHANGED <<dbState, nextId, now, nreq>>

\* The awaited call of a handler on the Book model rejects: the store cannot
\* be reached, or the call times out.  A call that times out may have been
\* applied by the store all the same (applied).  The request keeps the id of
\* its path; body is what createBook and updateBook pass to the call.
StoreRejects(n, id, body, applied) ==
  /\ pc = "listening"
  /\ n \in DOMAIN reqs
  /\ reqs[n].phase = "received"
  /\ LET h == Route(reqs[n])
         r == IF h = "createBook" THEN createBook(body)
              ELSE IF h = "getBook" THEN getBook(id)
              ELSE IF h = "updateBook" THEN updateBook(id, body)
              ELSE removeBook(id)
     IN /\ h \in {"createBook", "getBook", "updateBook", "removeBook"}
        /\ IF h = "createBook"
           THEN /\ id = Malformed
                /\ body \in CreateBodies
                /\ ~(Falsy(body, "title") \/ Falsy(body, "author"))
           ELSE IF h = "updateBook" THEN body \in UpdateBodies
           ELSE body = EmptyObj
        /\ reqs' = [reqs EXCEPT ![n] =
                     [@ EXCEPT !.phase = "awaiting",
                               !.params = IF h = "createBook" THEN EmptyObj
                                          ELSE [id |-> id],
                               !.out = Threw("MongooseError", 0)]]
        /\ db' = IF applied /\ ~r.threw THEN r.db ELSE db
        /\ nextId' = IF h = "createBook" /\ db' # db THEN nextId + 1 ELSE nextId
  /\ UNCHANGED <<pc, exitCode, resp, nresp, dbState, now, nreq, deleted>>

\* The handler of request n resumes after its await: it responds, or its
\* promise rejects with what the call on the model threw.
Resume(n) ==
  /\ pc = "listening"
  /\ n \in DOMAIN reqs
  /\ reqs[n].phase = "awaiting"
  /\ Dispatch(n, Route(reqs[n]), reqs[n].params, reqs[n].out)
  /\ UNCHANGED <<dbState, db, nextId, now, nreq, deleted>>

Handle ==
  \E n \in 1..MaxReqs :
    \/ BodyParseError(n)
    \/ HealthReq(n)
    \/ NotFoundReq(n)
    \/ \E body \in CreateBodies : CreateBookReq(n, body)
    \/ \E query \in Queries : ListBooksReq(n, query)
    \/ \E id \in IdParams : GetBookReq(n, id)
    \/ \E id \in IdParams, updates \in UpdateBodies : UpdateBookReq(n, id, updates)
    \/ \E id \in IdParams : RemoveBookReq(n, id)
    \/ Resume(n)

Next ==
  \/ ConnectOk
  \/ ConnectFail
  \/ Listen
  \/ ListenFail
  \/ Tick
  \/ \E r \in Requests : Receive(r)
  \/ Handle

\* The calls on the store succeed.
Spec == Init /\ [][Next]_vars

NextFault ==
  \/ Next
  \/ \E n \in 1..MaxReqs, id \in IdParams, body \in CreateBodies \cup UpdateBodies,
        applied \in BOOLEAN : StoreRejects(n, id, body, applied)

\* The calls on the store may reject; a request in hand is handled to its
\* end while the process runs (a call on the model settles or times out).
FaultSpec == Init /\ [][NextFault]_vars /\ WF_vars(Handle)

(* ----------------------------- properties ------------------------------ *)

\* A text that is empty or only whitespace.
Blank(s) == Trim(s) = <<>>

BookValid(doc) ==
  /\ ~Blank(doc.title)
  /\ ~Blank(doc.author)
  /\ doc.status \in StatusEnum
  /\ Has(doc, "rating") => (0 <= doc.rating /\ doc.rating <= 5)

\* The handler of request n has not run.
Received(n, h) ==
  n \in DOMAIN reqs /\ reqs[n].phase = "received" /\ Route(reqs[n]) = h

\* After the step request n is answered with status s, or its handler awaits
\* a result that is the response of status s or an error that carries s.
AnswerIs(n, s) ==
  IF n \in DOMAIN reqs'
  THEN /\ reqs'[n].phase = "awaiting"
       /\ IF reqs'[n].out.threw THEN reqs'[n].out.err.status = s
          ELSE reqs'[n].out.status = s
  ELSE resp'.status = s

\* C1: every stored book has a title and an author that are not blank, a
\* status of the enumeration, and a rating that is absent or within [0,5].
C1_StoredBooksValid == \A i \in DOMAIN db : BookValid(db[i])

\* C2: a create whose title or author is missing, empty or blank answers 400
\* and stores nothing.
C2_BlankCreateIs400 ==
  [][\A n \in DOMAIN reqs : Received(n, "createBook") =>
       \A body \in CreateBodies :
         ( /\ \E k \in {"title", "author"} : ~Has(body, k) \/ Blank(body[k])
           /\ CreateBookReq(n, body) )
         => (AnswerIs(n, 400) /\ db' = db)]_vars

\* C3: a get by an id that is not well formed answers 404, as a get by a
\* well-formed id that matches no record does.
C3_MalformedGetIs404 ==
  (resp.handler = "getBook" /\ ~IsObjectId(resp.params.id)) => resp.status = 404

\* C4: an update of a stored record that sets rating outside [0,5] answers
\* 400 and leaves the collection as it was.
C4_BadRatingUpdateIs400 ==
  [][\A n \in DOMAIN reqs : Received(n, "updateBook") =>
       \A id \in DOMAIN db : \A updates \in UpdateBodies :
         ( /\ Has(updates, "rating")
           /\ (updates.rating < 0 \/ updates.rating > 5)
           /\ UpdateBookReq(n, id, updates) )
         => (AnswerIs(n, 400) /\ db' = db)]_vars

\* The records a list request is to return: of the records of the filter,
\* newest first, those from (page - 1) * limit on, at most limit of them.
PageOf(sorted, page, limit) ==
  SubSeq(sorted, (page - 1) * limit + 1, Min(page * limit, Len(sorted)))

\* C5: a list request of page 1 or page 2 with limit 2 succeeds and returns
\* that page of the filtered records sorted by createdAt descending, so that
\* the two pages are disjoint and together are the first 4 records.
C5_PagesOfTwo ==
  [][\A n \in DOMAIN reqs : Received(n, "listBooks") =>
       \A query \in Queries :
         ( /\ Has(query, "page") /\ query.page \in {1, 2}
           /\ Has(query, "limit") /\ query.limit = 2
           /\ ListBooksReq(n, query) )
         => ( /\ AnswerIs(n, 200)
              /\ n \in DOMAIN reqs'
              /\ \E sorted \in SortByCreatedAtDesc(Found(query)) :
                   reqs'[n].out.body.items = PageOf(sorted, query.page, 2) )]_vars

\* C6: a create with a title and an author that are not blank and no optional
\* field succeeds with 201, which is the response its request gets, and a get
\* by the id it returns, made next, yields the record with the trimmed title
\* and author, status "to-read", notes "" and no tags.
C6_CreateThenGet ==
  /\ [][\A n \in DOMAIN reqs : Received(n, "createBook") =>
          \A body \in CreateBodies :
            ( /\ DOMAIN body = {"title", "author"}
              /\ ~Blank(body.title) /\ ~Blank(body.author)
              /\ CreateBookReq(n, body) )
            => ( /\ n \in DOMAIN reqs'
                 /\ ~reqs'[n].out.threw
                 /\ reqs'[n].out.status = 201
                 /\ \E id \in DOMAIN db' :
                      /\ reqs'[n].out.body["_id"] = id
                      /\ LET got == getBook(id)'
                         IN /\ ~got.threw /\ got.status = 200
                            /\ got.body.title = Trim(body.title)
                            /\ got.body.author = Trim(body.author)
                            /\ got.body.status = "to-read"
                            /\ got.body.notes = ""
                            /\ got.body.tags = <<>> )]_vars
  /\ [][\A n \in DOMAIN reqs :
          ( /\ Route(reqs[n]) = "createBook"
            /\ reqs[n].phase = "awaiting" /\ ~reqs[n].out.threw
            /\ Resume(n) )
          => ( /\ resp'.handler = "createBook" /\ resp'.status = 201
               /\ resp'.body = reqs[n].out.body
               /\ n \notin DOMAIN reqs' )]_vars

C6_Witness ==
  /\ resp.handler = "createBook" /\ resp.status = 201
  /\ resp.body.status = "to-read" /\ resp.body.notes = "" /\ resp.body.tags = <<>>
  /\ getBook(resp.body["_id"]).status = 200
  /\ getBook(resp.body["_id"]).body = resp.body

\* C7: a get by an id whose delete succeeded answers 404 ever after: the
\* lookup of every get made from then on finds nothing, and the handler of
\* such a get responds 404.
C7_DeletedStaysGone ==
  /\ [](\A id \in deleted : ~getBook(id).threw /\ getBook(id).status = 404)
  /\ [][\A n \in DOMAIN reqs : Received(n, "getBook") =>
          \A id \in deleted : GetBookReq(n, id) => AnswerIs(n, 404)]_vars
  /\ [][\A n \in DOMAIN reqs :
          ( /\ Route(reqs[n]) = "getBook" /\ reqs[n].phase = "awaiting"
            /\ ~reqs[n].out.threw /\ reqs[n].out.status = 404
            /\ Resume(n) )
          => (resp'.handler = "getBook" /\ resp'.status = 404)]_vars

C7_Witness ==
  /\ resp.handler = "getBook" /\ resp.status = 404
  /\ resp.params.id \in deleted
  /\ resp.params.id \notin DOMAIN db

\* C8: the step in which the store executes the call of an update request,
\* whatever its body names, leaves the _id and the createdAt of every stored
\* record as they were, and no step changes the _id or the createdAt of a
\* record that stays stored.
C8_UpdateKeepsIdAndCreatedAt ==
  /\ [][\A n \in DOMAIN reqs :
          (Received(n, "updateBook") /\ ~Received(n, "updateBook")')
          => \A i \in DOMAIN db : i \in DOMAIN db']_vars
  /\ [][\A i \in DOMAIN db \cap DOMAIN db' :
          /\ db[i]["_id"] = i /\ db'[i]["_id"] = i
          /\ db'[i].createdAt = db[i].createdAt]_vars

C8_Witness ==
  /\ resp.handler = "updateBook" /\ resp.status = 200
  /\ resp.body.updatedAt > resp.body.createdAt
  /\ resp.body["_id"] = resp.params.id

\* C9: every request received is answered, once: by its handler, or by
\* onError with the status of the failure or 500.  A handler that resumes
\* after its await answers its request in that step, and no request stays in
\* hand for ever.
C9_EveryRequestAnswered ==
  /\ [](nresp + Cardinality(DOMAIN reqs) = nreq)
  /\ [](resp.body = [error |-> "SyntaxError"] => resp.status = 400)
  /\ [](\A name \in {"ValidationError", "CastError", "MongooseError",
                      "MongoServerError", "ReferenceError"} :
          resp.body = [error |-> name] => resp.status = 500)
  /\ [](DOMAIN reqs # {} => pc = "listening")
  /\ [][\A n \in DOMAIN reqs :
          (reqs[n].phase = "awaiting" /\ (n \notin DOMAIN reqs' \/ reqs'[n] # reqs[n]))
          => ( /\ n \notin DOMAIN reqs'
               /\ nresp' = nresp + 1
               /\ resp'.handler = Route(reqs[n])
               /\ resp'.status = IF ~reqs[n].out.threw THEN reqs[n].out.status
                                 ELSE IF reqs[n].out.err.status # 0
                                   THEN reqs[n].out.err.status ELSE 500 )]_vars
  /\ \A n \in 1..MaxReqs : (n \in DOMAIN reqs) ~> (n \notin DOMAIN reqs)

C9_Witness ==
  /\ resp.handler = "getBook" /\ resp.body = [error |-> "MongooseError"]
  /\ resp.status = 500 /\ resp.params.id \in DOMAIN db
  /\ reqs = EmptyObj /\ nresp = nreq

\* C10: the server listens only once the database connection is made; when
\* it cannot be made the process exits with a non-zero status, listens never
\* and receives no request.
C10_ListenAfterConnect ==
  /\ [](pc = "listening" => dbState = "up")
  /\ [](nreq > 0 => dbState = "up")
  /\ [](dbState = "failed" => pc = "exited" /\ exitCode # 0 /\ nreq = 0)
  /\ [][dbState = "failed" => dbState' = "failed"]_vars
  /\ [][pc = "exited" => pc' = "exited"]_vars

C10_Witness ==
  /\ pc = "listening" /\ dbState = "up" /\ resp.handler = "health" /\ resp.status = 200
====
